---- MODULE Spec2Model ----
(***************************************************************************)
(* lleaves: the LightGBM model-file parser (tree_compiler/ast/parser.py),  *)
(* the forest builder (tree_compiler/parser/ast.py) and the batching of    *)
(* Model.predict (lleaves.py).                                             *)
(*                                                                         *)
(* A str is a sequence of characters, and a model file is a sequence of    *)
(* ASCII characters, one byte each, so that the offsets of its bytes are   *)
(* those of its characters and decoding cannot fail.  Python's str, bytes  *)
(* and file methods used by the code (readline, readlines, strip, split,   *)
(* startswith, int, float, json.loads) are operators over such sequences.  *)
(* A call that raises returns a record [ok |-> FALSE, exc |-> <name>].     *)
(***************************************************************************)
EXTENDS Integers, Sequences, FiniteSets, TLC

VARIABLES
    file,       \* the bytes of the model file
    input,      \* what the file (or the call) was made from
    pc,         \* position of the running call
    exc,        \* "none", or the exception that ended the call
    pos,        \* offset of the text handle f of parse_model_file
    lines,      \* parse_model_file: the block read last
    res,        \* parse_model_file: the dict it fills
    offset,     \* parse_pandas_categorical: seek offset from the end
    blines,     \* parse_pandas_categorical: lines read from the window
    trees,      \* parse_to_forest: the Trees built so far
    ret,        \* the value the call returned
    n_jobs,     \* predict: the number of threads
    batchsize,  \* predict: rows per submitted range
    next_i,     \* predict: the loop variable i of the submit loop
    tasks,      \* predict: the calls of the entry function, in submit order
    predictions \* predict: per row, how many calls wrote it

predictVars == <<n_jobs, batchsize, next_i, tasks, predictions>>
parserVars == <<file, pos, lines, res, offset, blines, trees>>
vars == <<file, input, pc, exc, pos, lines, res, offset, blines, trees, ret,
          n_jobs, batchsize, next_i, tasks, predictions>>

---------------------------------------------------------------------------
(* Characters.  A character is a one-character string.  NUL, "`" and the   *)
(* code points above 255 cannot be written as one, and are the token "U+"  *)
(* followed by the code point in hexadecimal.                              *)

Digits == <<"0", "1", "2", "3", "4", "5", "6", "7", "8", "9">>
HexDigits == Digits \o <<"A", "B", "C", "D", "E", "F">>
IsDigit(c) == \E d \in 1..10 : Digits[d] = c
DigitVal(c) == (CHOOSE d \in 1..10 : Digits[d] = c) - 1

\* n in hexadecimal, at least width digits
RECURSIVE HexText(_, _)
HexText(n, width) ==
    IF n = 0 /\ width <= 0 THEN ""
    ELSE HexText(n \div 16, width - 1) \o HexDigits[(n % 16) + 1]

\* the characters of the code points 0..255, at index code point + 1
Latin1 == <<
    "U+0000", "", "", "", "", "", "", "", "", "\t", "\n", "", "\f", "\r", "", "",
    "", "", "", "", "", "", "", "", "", "", "", "", "", "", "", "",
    " ", "!", "\"", "#", "$", "%", "&", "'", "(", ")", "*", "+", ",", "-", ".", "/",
    "0", "1", "2", "3", "4", "5", "6", "7", "8", "9", ":", ";", "<", "=", ">", "?",
    "@", "A", "B", "C", "D", "E", "F", "G", "H", "I", "J", "K", "L", "M", "N", "O",
    "P", "Q", "R", "S", "T", "U", "V", "W", "X", "Y", "Z", "[", "\\", "]", "^", "_",
    "U+0060", "a", "b", "c", "d", "e", "f", "g", "h", "i", "j", "k", "l", "m", "n", "o",
    "p", "q", "r", "s", "t", "u", "v", "w", "x", "y", "z", "{", "|", "}", "~", "",
    "", "", "", "", "", "", "", "", "", "", "", "", "", "", "", "",
    "", "", "", "", "", "", "", "", "", "", "", "", "", "", "", "",
    " ", "¡", "¢", "£", "¤", "¥", "¦", "§", "¨", "©", "ª", "«", "¬", "­", "®", "¯",
    "°", "±", "²", "³", "´", "µ", "¶", "·", "¸", "¹", "º", "»", "¼", "½", "¾", "¿",
    "À", "Á", "Â", "Ã", "Ä", "Å", "Æ", "Ç", "È", "É", "Ê", "Ë", "Ì", "Í", "Î", "Ï",
    "Ð", "Ñ", "Ò", "Ó", "Ô", "Õ", "Ö", "×", "Ø", "Ù", "Ú", "Û", "Ü", "Ý", "Þ", "ß",
    "à", "á", "â", "ã", "ä", "å", "æ", "ç", "è", "é", "ê", "ë", "ì", "í", "î", "ï",
    "ð", "ñ", "ò", "ó", "ô", "õ", "ö", "÷", "ø", "ù", "ú", "û", "ü", "ý", "þ", "ÿ">>

\* chr(c)
chr(c) == IF c <= 255 THEN Latin1[c + 1] ELSE "U+" \o HexText(c, 4)

NL == "\n"
CR == "\r"

\* the code points of str.isspace(), which str.strip() removes
SpaceCodes ==
    {9, 10, 11, 12, 13, 28, 29, 30, 31, 32, 133, 160, 5760}
    \cup (8192..8202) \cup {8232, 8233, 8239, 8287, 12288}
Whitespace == {chr(c) : c \in SpaceCodes}

\* Py_ISSPACE: what int() and float() skip around the number
CSpace == {chr(c) : c \in 9..13} \cup {" "}

\* the code points of the zeros of the Unicode decimal digits (Unicode 14),
\* each followed by its 1..9
DecimalZeros ==
    {48, 1632, 1776, 1984, 2406, 2534, 2662, 2790, 2918, 3046, 3174, 3302,
     3430, 3558, 3664, 3792, 3872, 4160, 4240, 6112, 6160, 6470, 6608,
     6784, 6800, 6992, 7088, 7232, 7248, 42528, 43216, 43264, 43472,
     43504, 43600, 44016, 65296, 66720, 68912, 69734, 69872, 69942, 70096,
     70384, 70736, 70864, 71248, 71360, 71472, 71904, 72016, 72784, 73040,
     73120, 92768, 92864, 93008, 120782, 120792, 120802, 120812, 120822,
     123200, 123632, 125264, 130032}
DecimalChars == {chr(z + d) : z \in DecimalZeros, d \in 0..9}

\* Py_UNICODE_TODECIMAL(c) for a decimal digit c
TODECIMAL(c) == CHOOSE d \in 0..9 : \E z \in DecimalZeros : chr(z + d) = c

\* the code points below 127
Below127 == {chr(c) : c \in 0..126}

\* _PyUnicode_TransformDecimalAndSpaceToASCII, which int() and float() apply
\* to a str first: decimal digits to "0".."9", whitespace to " ", any other
\* character from 127 on to "?"
TransformChar(c) ==
    IF c \in Below127 THEN c
    ELSE IF c \in Whitespace THEN " "
    ELSE IF c \in DecimalChars THEN Digits[TODECIMAL(c) + 1]
    ELSE "?"

TransformDecimalAndSpaceToASCII(x) == [i \in 1..Len(x) |-> TransformChar(x[i])]

---------------------------------------------------------------------------
(* The str methods.                                                        *)

Ok(v) == [ok |-> TRUE, v |-> v, exc |-> "none"]
Raise(e) == [ok |-> FALSE, v |-> <<>>, exc |-> e]

SetMin(S) == CHOOSE m \in S : \A n \in S : m <= n
SetMax(S) == CHOOSE m \in S : \A n \in S : m >= n

RECURSIVE Concat(_)
Concat(ss) == IF ss = <<>> THEN <<>> ELSE Head(ss) \o Concat(Tail(ss))

\* s.startswith(prefix)
startswith(s, prefix) ==
    /\ Len(s) >= Len(prefix)
    /\ \A i \in 1..Len(prefix) : s[i] = prefix[i]

\* s without its leading and trailing characters of the set chars
StripChars(s, chars) ==
    IF \A i \in 1..Len(s) : s[i] \in chars THEN <<>>
    ELSE SubSeq(s, SetMin({i \in 1..Len(s) : s[i] \notin chars}),
                   SetMax({i \in 1..Len(s) : s[i] \notin chars}))

\* s.strip(): leading and trailing whitespace removed
strip(s) == StripChars(s, Whitespace)

\* the n-th smallest element of a set of numbers
Nth(S, n) == CHOOSE x \in S : Cardinality({y \in S : y < x}) = n - 1

\* the pieces of s between the positions in ends, the last one being Len(s) + 1
Pieces(s, ends) ==
    [n \in 1..Cardinality(ends) |->
        SubSeq(s, IF n = 1 THEN 1 ELSE Nth(ends, n - 1) + 1, Nth(ends, n) - 1)]

\* s.split(sep) for a one-character sep: always at least one piece
split(s, sep) == Pieces(s, {i \in 1..Len(s) : s[i] = sep} \cup {Len(s) + 1})

---------------------------------------------------------------------------
(* Reading lines.  f of parse_model_file is opened in text mode, where     *)
(* "\n", "\r\n" and a lone "\r" each end a line and are read as "\n"; f of *)
(* parse_pandas_categorical is opened in binary mode, where only "\n" ends *)
(* a line and nothing is translated.  Offsets count the characters of the  *)
(* file as stored.                                                         *)

\* where the line that starts at offset p breaks: the index of its "\n" or
\* "\r", Len(s) + 1 when the file ends first
LineBreak(s, p) ==
    SetMin({j \in (p + 1)..Len(s) : s[j] \in {NL, CR}} \cup {Len(s) + 1})

\* the offset behind the line terminator at index j
BreakEnd(s, j) ==
    IF j > Len(s) THEN Len(s)
    ELSE IF s[j] = CR /\ j < Len(s) /\ s[j + 1] = NL THEN j + 1
    ELSE j

\* the line of offsets p..j-1, its terminator read as "\n"
TranslatedLine(s, p, j) ==
    IF j > Len(s) THEN SubSeq(s, p + 1, Len(s))
    ELSE Append(SubSeq(s, p + 1, j - 1), NL)

\* file.readline() at offset p in text mode: the line with its "\n", ""
\* at the end of the file
readline(s, p) ==
    IF p >= Len(s) THEN <<>> ELSE TranslatedLine(s, p, LineBreak(s, p))

\* the offset of the handle after that readline()
tell(s, p) == IF p >= Len(s) THEN p ELSE BreakEnd(s, LineBreak(s, p))

\* the line at offset p in binary mode: up to and including the next "\n"
BinaryLine(s, p) ==
    IF p >= Len(s) THEN <<>>
    ELSE SubSeq(s, p + 1,
                SetMin({j \in (p + 1)..Len(s) : s[j] = NL} \cup {Len(s)}))

\* file.readlines() from offset p to the end of the file, in binary mode
RECURSIVE readlines(_, _)
readlines(s, p) ==
    IF p >= Len(s) THEN <<>>
    ELSE <<BinaryLine(s, p)>> \o readlines(s, p + Len(BinaryLine(s, p)))

---------------------------------------------------------------------------
(* int(x) of a str: whitespace around, a sign, decimal digits with single  *)
(* "_"s between them; ValueError otherwise.  Python's int is unbounded;    *)
(* the values here stay below 2^31.                                        *)

RECURSIVE DigitsVal(_)
DigitsVal(ds) ==
    IF ds = <<>> THEN 0
    ELSE 10 * DigitsVal(SubSeq(ds, 1, Len(ds) - 1)) + DigitVal(ds[Len(ds)])

AllDigits(ds) == ds /= <<>> /\ \A i \in 1..Len(ds) : IsDigit(ds[i])

NotUnderscore(c) == c /= "_"
NoUnderscores(x) == SelectSeq(x, NotUnderscore)

\* digits with "_" between two digits only
DigitsWithUnderscores(x) ==
    /\ x /= <<>>
    /\ \A i \in 1..Len(x) : IsDigit(x[i]) \/ x[i] = "_"
    /\ \A i \in 1..Len(x) :
          x[i] = "_" => /\ i > 1 /\ IsDigit(x[i - 1])
                        /\ i < Len(x) /\ IsDigit(x[i + 1])

Negative(x) == x /= <<>> /\ x[1] = "-"
Unsigned(x) == IF x /= <<>> /\ x[1] \in {"+", "-"} THEN Tail(x) ELSE x
Signed(neg, n) == IF neg THEN 0 - n ELSE n

\* PyLong_FromString on the characters between the whitespace
IntOfText(x) ==
    IF DigitsWithUnderscores(Unsigned(x))
    THEN Ok(Signed(Negative(x), DigitsVal(NoUnderscores(Unsigned(x)))))
    ELSE Raise("ValueError")

int(x) == IntOfText(StripChars(TransformDecimalAndSpaceToASCII(x), CSpace))

---------------------------------------------------------------------------
(* float(x) of a str.  A float is inf, nan, or the decimal                 *)
(* (-1)^neg * m * 10^-e, m being its digits without leading and trailing   *)
(* zeros: it stands for the double nearest to that decimal.  Decimals that *)
(* round to infinity or to zero are inf and zero; two texts of one double  *)
(* are equal here only when they are the same decimal, and nan equals nan. *)

Finite(neg, m, e) == [kind |-> "finite", neg |-> neg, m |-> m, e |-> e]
Zero(neg) == Finite(neg, <<>>, 0)
Inf(neg) == [kind |-> "inf", neg |-> neg, m |-> <<>>, e |-> 0]
NaN == [kind |-> "nan", neg |-> FALSE, m |-> <<>>, e |-> 0]

\* ds without its leading zeros
StripZeros(ds) ==
    IF \A i \in 1..Len(ds) : ds[i] = "0" THEN <<>>
    ELSE SubSeq(ds, SetMin({i \in 1..Len(ds) : ds[i] /= "0"}), Len(ds))

\* ds without its trailing zeros
DropZeros(ds) ==
    IF \A i \in 1..Len(ds) : ds[i] = "0" THEN <<>>
    ELSE SubSeq(ds, 1, SetMax({i \in 1..Len(ds) : ds[i] /= "0"}))

\* 0.a < 0.b for digit strings without trailing zeros
FracLess(a, b) ==
    \E i \in 1..Len(b) :
        /\ \A j \in 1..(i - 1) : j <= Len(a) /\ a[j] = b[j]
        /\ i > Len(a) \/ DigitVal(a[i]) < DigitVal(b[i])

\* the digits of 2^1024 - 2^970, halfway between the largest double and
\* 2^1024: 0.MaxHalf * 10^309 and every decimal above it round to infinity
MaxHalf ==
    <<"1", "7", "9", "7", "6", "9", "3", "1", "3", "4", "8", "6", "2", "3",
      "1", "5", "8", "0", "7", "9", "3", "7", "2", "8", "9", "7", "1", "4",
      "0", "5", "3", "0", "3", "4", "1", "5", "0", "7", "9", "9", "3", "4",
      "1", "3", "2", "7", "1", "0", "0", "3", "7", "8", "2", "6", "9", "3",
      "6", "1", "7", "3", "7", "7", "8", "9", "8", "0", "4", "4", "4", "9",
      "6", "8", "2", "9", "2", "7", "6", "4", "7", "5", "0", "9", "4", "6",
      "6", "4", "9", "0", "1", "7", "9", "7", "7", "5", "8", "7", "2", "0",
      "7", "0", "9", "6", "3", "3", "0", "2", "8", "6", "4", "1", "6", "6",
      "9", "2", "8", "8", "7", "9", "1", "0", "9", "4", "6", "5", "5", "5",
      "5", "4", "7", "8", "5", "1", "9", "4", "0", "4", "0", "2", "6", "3",
      "0", "6", "5", "7", "4", "8", "8", "6", "7", "1", "5", "0", "5", "8",
      "2", "0", "6", "8", "1", "9", "0", "8", "9", "0", "2", "0", "0", "0",
      "7", "0", "8", "3", "8", "3", "6", "7", "6", "2", "7", "3", "8", "5",
      "4", "8", "4", "5", "8", "1", "7", "7", "1", "1", "5", "3", "1", "7",
      "6", "4", "4", "7", "5", "7", "3", "0", "2", "7", "0", "0", "6", "9",
      "8", "5", "5", "5", "7", "1", "3", "6", "6", "9", "5", "9", "6", "2",
      "2", "8", "4", "2", "9", "1", "4", "8", "1", "9", "8", "6", "0", "8",
      "3", "4", "9", "3", "6", "4", "7", "5", "2", "9", "2", "7", "1", "9",
      "0", "7", "4", "1", "6", "8", "4", "4", "4", "3", "6", "5", "5", "1",
      "0", "7", "0", "4", "3", "4", "2", "7", "1", "1", "5", "5", "9", "6",
      "9", "9", "5", "0", "8", "0", "9", "3", "0", "4", "2", "8", "8", "0",
      "1", "7", "7", "9", "0", "4", "1", "7", "4", "4", "9", "7", "7", "9",
      "2">>

\* the digits of 5^1075: 0.MinHalf * 10^-323 is 2^-1075, half the smallest
\* double, and it and every decimal below it round to zero
MinHalf ==
    <<"2", "4", "7", "0", "3", "2", "8", "2", "2", "9", "2", "0", "6", "2",
      "3", "2", "7", "2", "0", "8", "8", "2", "8", "4", "3", "9", "6", "4",
      "3", "4", "1", "1", "0", "6", "8", "6", "1", "8", "2", "5", "2", "9",
      "9", "0", "1", "3", "0", "7", "1", "6", "2", "3", "8", "2", "2", "1",
      "2", "7", "9", "2", "8", "4", "1", "2", "5", "0", "3", "3", "7", "7",
      "5", "3", "6", "3", "5", "1", "0", "4", "3", "7", "5", "9", "3", "2",
      "6", "4", "9", "9", "1", "8", "1", "8", "0", "8", "1", "7", "9", "9",
      "6", "1", "8", "9", "8", "9", "8", "2", "8", "2", "3", "4", "7", "7",
      "2", "2", "8", "5", "8", "8", "6", "5", "4", "6", "3", "3", "2", "8",
      "3", "5", "5", "1", "7", "7", "9", "6", "9", "8", "9", "8", "1", "9",
      "9", "3", "8", "7", "3", "9", "8", "0", "0", "5", "3", "9", "0", "9",
      "3", "9", "0", "6", "3", "1", "5", "0", "3", "5", "6", "5", "9", "5",
      "1", "5", "5", "7", "0", "2", "2", "6", "3", "9", "2", "2", "9", "0",
      "8", "5", "8", "3", "9", "2", "4", "4", "9", "1", "0", "5", "1", "8",
      "4", "4", "3", "5", "9", "3", "1", "8", "0", "2", "8", "4", "9", "9",
      "3", "6", "5", "3", "6", "1", "5", "2", "5", "0", "0", "3", "1", "9",
      "3", "7", "0", "4", "5", "7", "6", "7", "8", "2", "4", "9", "2", "1",
      "9", "3", "6", "5", "6", "2", "3", "6", "6", "9", "8", "6", "3", "6",
      "5", "8", "4", "8", "0", "7", "5", "7", "0", "0", "1", "5", "8", "5",
      "7", "6", "9", "2", "6", "9", "9", "0", "3", "7", "0", "6", "3", "1",
      "1", "9", "2", "8", "2", "7", "9", "5", "5", "8", "5", "5", "1", "3",
      "3", "2", "9", "2", "7", "8", "3", "4", "3", "3", "8", "4", "0", "9",
      "3", "5", "1", "9", "7", "8", "0", "1", "5", "5", "3", "1", "2", "4",
      "6", "5", "9", "7", "2", "6", "3", "5", "7", "9", "5", "7", "4", "6",
      "2", "2", "7", "6", "6", "4", "6", "5", "2", "7", "2", "8", "2", "7",
      "2", "2", "0", "0", "5", "6", "3", "7", "4", "0", "0", "6", "4", "8",
      "5", "4", "9", "9", "9", "7", "7", "0", "9", "6", "5", "9", "9", "4",
      "7", "0", "4", "5", "4", "0", "2", "0", "8", "2", "8", "1", "6", "6",
      "2", "2", "6", "2", "3", "7", "8", "5", "7", "3", "9", "3", "4", "5",
      "0", "7", "3", "6", "3", "3", "9", "0", "0", "7", "9", "6", "7", "7",
      "6", "1", "9", "3", "0", "5", "7", "7", "5", "0", "6", "7", "4", "0",
      "1", "7", "6", "3", "2", "4", "6", "7", "3", "6", "0", "0", "9", "6",
      "8", "9", "5", "1", "3", "4", "0", "5", "3", "5", "5", "3", "7", "4",
      "5", "8", "5", "1", "6", "6", "6", "1", "1", "3", "4", "2", "2", "3",
      "7", "6", "6", "6", "7", "8", "6", "0", "4", "1", "6", "2", "1", "5",
      "9", "6", "8", "0", "4", "6", "1", "9", "1", "4", "4", "6", "7", "2",
      "9", "1", "8", "4", "0", "3", "0", "0", "5", "3", "0", "0", "5", "7",
      "5", "3", "0", "8", "4", "9", "0", "4", "8", "7", "6", "5", "3", "9",
      "1", "7", "1", "1", "3", "8", "6", "5", "9", "1", "6", "4", "6", "2",
      "3", "9", "5", "2", "4", "9", "1", "2", "6", "2", "3", "6", "5", "3",
      "8", "8", "1", "8", "7", "9", "6", "3", "6", "2", "3", "9", "3", "7",
      "3", "2", "8", "0", "4", "2", "3", "8", "9", "1", "0", "1", "8", "6",
      "7", "2", "3", "4", "8", "4", "9", "7", "6", "6", "8", "2", "3", "5",
      "0", "8", "9", "8", "6", "3", "3", "8", "8", "5", "8", "7", "9", "2",
      "5", "6", "2", "8", "3", "0", "2", "7", "5", "5", "9", "9", "5", "6",
      "5", "7", "5", "2", "4", "4", "5", "5", "5", "0", "7", "2", "5", "5",
      "1", "8", "9", "3", "1", "3", "6", "9", "0", "8", "3", "6", "2", "5",
      "4", "7", "7", "9", "1", "8", "6", "9", "4", "8", "6", "6", "7", "9",
      "9", "4", "9", "6", "8", "3", "2", "4", "0", "4", "9", "7", "0", "5",
      "8", "2", "1", "0", "2", "8", "5", "1", "3", "1", "8", "5", "4", "5",
      "1", "3", "9", "6", "2", "1", "3", "8", "3", "7", "7", "2", "2", "8",
      "2", "6", "1", "4", "5", "4", "3", "7", "6", "9", "3", "4", "1", "2",
      "5", "3", "2", "0", "9", "8", "5", "9", "1", "3", "2", "7", "6", "6",
      "7", "2", "3", "6", "3", "2", "8", "1", "2", "5">>

\* m /= <<>> without leading and trailing zeros; adj is the exponent of
\* 0.m * 10^adj
Overflows(m, adj) == adj > 309 \/ (adj = 309 /\ ~FracLess(m, MaxHalf))
Underflows(m, adj) == adj < 0 - 323 \/ (adj = 0 - 323 /\ ~FracLess(MinHalf, m))

Rounded(neg, m, e) ==
    IF Overflows(m, Len(m) - e) THEN Inf(neg)
    ELSE IF Underflows(m, Len(m) - e) THEN Zero(neg)
    ELSE Finite(neg, m, e)

\* the float of (-1)^neg * ds * 10^-e for digits ds
Decimal(neg, ds, e) ==
    IF StripZeros(ds) = <<>> THEN Zero(neg)
    ELSE Rounded(neg, DropZeros(StripZeros(ds)),
                 e - (Len(ds) - Len(DropZeros(ds))))

\* the number of the exponent digits ds, capped where every decimal has
\* long rounded to infinity or to zero
ExponentVal(ds) ==
    IF Len(StripZeros(ds)) > 8 THEN 100000000 ELSE DigitsVal(StripZeros(ds))

\* the text behind "e": a sign and digits
ExponentOk(t) == AllDigits(Unsigned(t))
Exponent(t) == Signed(Negative(t), ExponentVal(Unsigned(t)))

\* parts: the mantissa split at ".", x the exponent
FloatOfParts(neg, parts, x) ==
    IF /\ Len(parts) <= 2
       /\ \A n \in 1..Len(parts) : \A i \in 1..Len(parts[n]) : IsDigit(parts[n][i])
       /\ \E n \in 1..Len(parts) : Len(parts[n]) >= 1
    THEN Ok(Decimal(neg, Concat(parts),
                    (IF Len(parts) = 2 THEN Len(parts[2]) ELSE 0) - x))
    ELSE Raise("ValueError")

\* u[k] is the first "e" or "E" of the unsigned text u, k = Len(u) + 1 when
\* there is none
FloatOfMantissaExponent(neg, u, k) ==
    IF k > Len(u) THEN FloatOfParts(neg, split(u, "."), 0)
    ELSE IF ExponentOk(SubSeq(u, k + 1, Len(u)))
    THEN FloatOfParts(neg, split(SubSeq(u, 1, k - 1), "."),
                      Exponent(SubSeq(u, k + 1, Len(u))))
    ELSE Raise("ValueError")

\* u spells word in lower or upper case letters
Spells(u, lower, upper) ==
    /\ Len(u) = Len(lower)
    /\ \A i \in 1..Len(u) : u[i] = lower[i] \/ u[i] = upper[i]

FloatOfUnsigned(neg, u) ==
    IF \/ Spells(u, <<"i", "n", "f">>, <<"I", "N", "F">>)
       \/ Spells(u, <<"i", "n", "f", "i", "n", "i", "t", "y">>,
                    <<"I", "N", "F", "I", "N", "I", "T", "Y">>)
    THEN Ok(Inf(neg))
    ELSE IF Spells(u, <<"n", "a", "n">>, <<"N", "A", "N">>) THEN Ok(NaN)
    ELSE FloatOfMantissaExponent(neg, u,
            SetMin({i \in 1..Len(u) : u[i] \in {"e", "E"}} \cup {Len(u) + 1}))

\* "_" is allowed between two digits only
UnderscoresOk(x) ==
    \A i \in 1..Len(x) :
        x[i] = "_" => /\ i > 1 /\ IsDigit(x[i - 1])
                      /\ i < Len(x) /\ IsDigit(x[i + 1])

\* PyOS_string_to_double on the characters between the whitespace
FloatOfText(x) ==
    IF UnderscoresOk(x)
    THEN FloatOfUnsigned(Negative(x), Unsigned(NoUnderscores(x)))
    ELSE Raise("ValueError")

float(x) == FloatOfText(StripChars(TransformDecimalAndSpaceToASCII(x), CSpace))

---------------------------------------------------------------------------
(* json.loads(s) of a str: None, bool, int, float, str, list and dict.     *)
(* Indices are 1-based: JValue(s, i) is the scanner's scan_once(s, i - 1), *)
(* and next is the index of the first character behind the value.          *)

JNull == [t |-> "null", v |-> <<>>]
JBool(b) == [t |-> "bool", v |-> b]
JNum(n) == [t |-> "num", v |-> n]
JFloat(x) == [t |-> "float", v |-> x]
JStr(cs) == [t |-> "str", v |-> cs]
JArr(vs) == [t |-> "arr", v |-> vs]
JObj(kvs) == [t |-> "obj", v |-> kvs]
JFail == [ok |-> FALSE, v |-> <<>>, next |-> 0]
JOk(v, n) == [ok |-> TRUE, v |-> v, next |-> n]

\* json.decoder.WHITESPACE
JWhitespace == {" ", "\t", NL, CR}

\* strict mode: the characters a string may not hold unescaped
ControlChars == {chr(c) : c \in 0..31}

\* the index of the first character from s[i] on that is not of the set
\* chars, Len(s) + 1 when there is none
Skip(s, i, chars) ==
    SetMin({j \in i..Len(s) : s[j] \notin chars} \cup {Len(s) + 1})

\* s[i : i + len(word)] == word
At(s, i, word) ==
    /\ i + Len(word) - 1 <= Len(s)
    /\ \A k \in 1..Len(word) : s[i + k - 1] = word[k]

\* BACKSLASH of json.decoder: the character each one-letter escape stands for
Backslash(c) ==
    IF c = "b" THEN chr(8)
    ELSE IF c = "f" THEN chr(12)
    ELSE IF c = "n" THEN NL
    ELSE IF c = "r" THEN CR
    ELSE IF c = "t" THEN chr(9)
    ELSE c
BackslashChars == {"\"", "\\", "/", "b", "f", "n", "r", "t"}

IsHexDigit(c) == IsDigit(c) \/ c \in {"a", "b", "c", "d", "e", "f", "A", "B", "C", "D", "E", "F"}
HexVal(c) ==
    IF IsDigit(c) THEN DigitVal(c)
    ELSE IF c \in {"a", "A"} THEN 10
    ELSE IF c \in {"b", "B"} THEN 11
    ELSE IF c \in {"c", "C"} THEN 12
    ELSE IF c \in {"d", "D"} THEN 13
    ELSE IF c \in {"e", "E"} THEN 14
    ELSE 15

\* s[i..i+3] are four hexadecimal digits, and their number
IsHex4(s, i) == i + 3 <= Len(s) /\ \A k \in i..(i + 3) : IsHexDigit(s[k])
Hex4(s, i) ==
    4096 * HexVal(s[i]) + 256 * HexVal(s[i + 1]) + 16 * HexVal(s[i + 2])
    + HexVal(s[i + 3])

IsHighSurrogate(c) == c >= 55296 /\ c <= 56319
IsLowSurrogate(c) == c >= 56320 /\ c <= 57343
JoinSurrogates(hi, lo) == 65536 + (hi - 55296) * 1024 + (lo - 56320)

\* the high surrogate written at s[i..i+3] is followed by "\u" and a low
\* surrogate
PairAt(s, i) ==
    /\ IsHighSurrogate(Hex4(s, i))
    /\ At(s, i + 4, <<"\\", "u">>)
    /\ IsHex4(s, i + 6)
    /\ IsLowSurrogate(Hex4(s, i + 6))

\* d[key] = value on a dict kept as the sequence of its <<key, value>>
\* pairs in insertion order
DictSet(d, key, value) ==
    IF \E n \in 1..Len(d) : d[n][1] = key
    THEN [n \in 1..Len(d) |-> IF d[n][1] = key THEN <<key, value>> ELSE d[n]]
    ELSE Append(d, <<key, value>>)

\* the end of the run of digits that starts at s[i]
DigitsEnd(s, i) == Skip(s, i, {Digits[d] : d \in 1..10})

\* NUMBER_RE: the end of the integer part that starts at s[i], i when
\* there is none
IntegerEnd(s, i) ==
    IF i > Len(s) \/ ~IsDigit(s[i]) THEN i
    ELSE IF s[i] = "0" THEN i + 1
    ELSE DigitsEnd(s, i)

\* the end of the fraction ".digits" at s[i], i when there is none
FractionEnd(s, i) ==
    IF i + 1 <= Len(s) /\ s[i] = "." /\ IsDigit(s[i + 1])
    THEN DigitsEnd(s, i + 1)
    ELSE i

\* the index behind the "e" and the sign at s[i]
ExponentDigits(s, i) ==
    IF i + 1 <= Len(s) /\ s[i + 1] \in {"+", "-"} THEN i + 2 ELSE i + 1

\* the end of the exponent at s[i], i when there is none
ExponentEnd(s, i) ==
    IF /\ i <= Len(s) /\ s[i] \in {"e", "E"}
       /\ ExponentDigits(s, i) <= Len(s) /\ IsDigit(s[ExponentDigits(s, i)])
    THEN DigitsEnd(s, ExponentDigits(s, i))
    ELSE i

\* the number of s[i..e-1], whose integer part ends at ie
NumberOf(s, i, ie, e) ==
    IF e = ie THEN JOk(JNum(IntOfText(SubSeq(s, i, e - 1)).v), e)
    ELSE JOk(JFloat(FloatOfText(SubSeq(s, i, e - 1)).v), e)

\* the number that starts at s[i], d the index behind its sign and ie the
\* end of its integer part
JNumberFrom(s, i, d, ie) ==
    IF ie = d THEN JFail
    ELSE NumberOf(s, i, ie, ExponentEnd(s, FractionEnd(s, ie)))

JNumber(s, i) ==
    IF s[i] = "-" THEN JNumberFrom(s, i, i + 1, IntegerEnd(s, i + 1))
    ELSE JNumberFrom(s, i, i, IntegerEnd(s, i))

RECURSIVE JString(_, _, _)
RECURSIVE JValue(_, _)
RECURSIVE JItems(_, _, _)
RECURSIVE JPairs(_, _, _)

\* scanstring: the string whose characters start at s[i], acc holding
\* those read
JString(s, i, acc) ==
    IF i > Len(s) THEN JFail
    ELSE IF s[i] = "\"" THEN JOk(JStr(acc), i + 1)
    ELSE IF s[i] \in ControlChars THEN JFail
    ELSE IF s[i] /= "\\" THEN JString(s, i + 1, Append(acc, s[i]))
    ELSE IF i + 1 > Len(s) THEN JFail
    ELSE IF s[i + 1] \in BackslashChars
         THEN JString(s, i + 2, Append(acc, Backslash(s[i + 1])))
    ELSE IF s[i + 1] /= "u" \/ ~IsHex4(s, i + 2) THEN JFail
    ELSE IF PairAt(s, i + 2)
         THEN JString(s, i + 12,
                      Append(acc, chr(JoinSurrogates(Hex4(s, i + 2), Hex4(s, i + 8)))))
    ELSE JString(s, i + 6, Append(acc, chr(Hex4(s, i + 2))))

\* the value read, then "]" or "," behind whitespace at s[j]
JItemsNext(s, j, vs) ==
    IF j > Len(s) THEN JFail
    ELSE IF s[j] = "]" THEN JOk(JArr(vs), j + 1)
    ELSE IF s[j] = "," THEN JItems(s, Skip(s, j + 1, JWhitespace), vs)
    ELSE JFail

JItemsAfter(s, item, acc) ==
    IF ~item.ok THEN JFail
    ELSE JItemsNext(s, Skip(s, item.next, JWhitespace), Append(acc, item.v))

\* JSONArray: the items of an array from s[i] on, acc holding those read
JItems(s, i, acc) == JItemsAfter(s, JValue(s, i), acc)

\* the pair read, then "}" or "," behind whitespace at s[j]
JPairsNext(s, j, d) ==
    IF j > Len(s) THEN JFail
    ELSE IF s[j] = "}" THEN JOk(JObj(d), j + 1)
    ELSE IF s[j] = "," THEN JPairs(s, Skip(s, j + 1, JWhitespace), d)
    ELSE JFail

JPairsValue(s, key, val, acc) ==
    IF ~val.ok THEN JFail
    ELSE JPairsNext(s, Skip(s, val.next, JWhitespace),
                    DictSet(acc, key.v.v, val.v))

\* the key read, then ":" behind whitespace at s[j]
JPairsColon(s, key, j, acc) ==
    IF j > Len(s) \/ s[j] /= ":" THEN JFail
    ELSE JPairsValue(s, key, JValue(s, Skip(s, j + 1, JWhitespace)), acc)

JPairsKey(s, key, acc) ==
    IF ~key.ok THEN JFail
    ELSE JPairsColon(s, key, Skip(s, key.next, JWhitespace), acc)

\* JSONObject: the pairs of an object from s[i] on, acc holding those read
JPairs(s, i, acc) ==
    IF i > Len(s) \/ s[i] /= "\"" THEN JFail
    ELSE JPairsKey(s, JString(s, i + 1, <<>>), acc)

\* behind "[" and whitespace
JArray(s, j) ==
    IF j <= Len(s) /\ s[j] = "]" THEN JOk(JArr(<<>>), j + 1)
    ELSE JItems(s, j, <<>>)

\* behind "{" and whitespace
JObject(s, j) ==
    IF j <= Len(s) /\ s[j] = "}" THEN JOk(JObj(<<>>), j + 1)
    ELSE JPairs(s, j, <<>>)

\* scan_once: the value that starts at s[i]
JValue(s, i) ==
    IF i > Len(s) THEN JFail
    ELSE IF s[i] = "\"" THEN JString(s, i + 1, <<>>)
    ELSE IF s[i] = "{" THEN JObject(s, Skip(s, i + 1, JWhitespace))
    ELSE IF s[i] = "[" THEN JArray(s, Skip(s, i + 1, JWhitespace))
    ELSE IF At(s, i, <<"n", "u", "l", "l">>) THEN JOk(JNull, i + 4)
    ELSE IF At(s, i, <<"t", "r", "u", "e">>) THEN JOk(JBool(TRUE), i + 4)
    ELSE IF At(s, i, <<"f", "a", "l", "s", "e">>) THEN JOk(JBool(FALSE), i + 5)
    ELSE IF At(s, i, <<"N", "a", "N">>) THEN JOk(JFloat(NaN), i + 3)
    ELSE IF At(s, i, <<"I", "n", "f", "i", "n", "i", "t", "y">>) THEN JOk(JFloat(Inf(FALSE)), i + 8)
    ELSE IF At(s, i, <<"-", "I", "n", "f", "i", "n", "i", "t", "y">>) THEN JOk(JFloat(Inf(TRUE)), i + 9)
    ELSE JNumber(s, i)

\* JSONDecoder.decode: the value between whitespace, nothing behind it
DecodeEnd(s, r) ==
    IF r.ok /\ Skip(s, r.next, JWhitespace) = Len(s) + 1 THEN Ok(r.v)
    ELSE Raise("JSONDecodeError")

json_loads(s) == DecodeEnd(s, JValue(s, Skip(s, 1, JWhitespace)))

---------------------------------------------------------------------------
(* parse_pandas_categorical                                                *)

pandas_key == <<"p", "a", "n", "d", "a", "s", "_", "c", "a", "t", "e", "g",
                "o", "r", "i", "c", "a", "l", ":">>

\* max_offset = -os.path.getsize(file_path)
max_offset == 0 - Len(file)

\* the clamp at the head of the loop body
ClampOffset(off, maxoff) == IF off < maxoff THEN maxoff ELSE off

\* f.seek(offset, os.SEEK_END); lines = f.readlines()
SeekEndReadlines(s, off) == readlines(s, Len(s) + off)

\* the marker line picked after the loop, and the value returned
InspectLines(ls) ==
    LET last == strip(ls[Len(ls)])
        last_line == IF ~startswith(last, pandas_key)
                     THEN strip(ls[Len(ls) - 1]) ELSE last
    IN  IF startswith(last_line, pandas_key)
        THEN json_loads(SubSeq(last_line, Len(pandas_key) + 1, Len(last_line)))
        ELSE Raise("ValueError")

\* one pass of the loop up to the test: clamp, seek, read
ScanRead ==
    /\ pc = "scan"
    /\ offset' = ClampOffset(offset, max_offset)
    /\ blines' = SeekEndReadlines(file, offset')
    /\ pc' = "scanned"
    /\ UNCHANGED <<file, input, exc, pos, lines, res, trees, ret, predictVars>>

\* if len(lines) >= 2: break; offset *= 2
ScanCheck ==
    /\ pc = "scanned"
    /\ IF Len(blines) >= 2
       THEN pc' = "inspect" /\ offset' = offset
       ELSE pc' = "scan" /\ offset' = offset * 2
    /\ UNCHANGED <<file, input, exc, pos, lines, res, blines, trees, ret, predictVars>>

\* lines 20-25, called on its own
Inspect ==
    /\ pc = "inspect"
    /\ input.entry = "parse_pandas_categorical"
    /\ LET r == InspectLines(blines)
       IN  /\ exc' = r.exc
           /\ ret' = r.v
           /\ pc' = IF r.ok THEN "returned" ELSE "raised"
    /\ UNCHANGED <<file, input, pos, lines, res, offset, blines, trees, predictVars>>

---------------------------------------------------------------------------
(* The schemas and _struct_from_block.                                     *)

s_tree == <<"t", "r", "e", "e">>
s_version_eq == <<"v", "e", "r", "s", "i", "o", "n", "=">>
s_Tree_eq == <<"T", "r", "e", "e", "=">>
s_end_of_trees == <<"e", "n", "d", " ", "o", "f", " ", "t", "r", "e", "e",
        "s">>
k_max_feature_idx == <<"m", "a", "x", "_", "f", "e", "a", "t", "u", "r",
        "e", "_", "i", "d", "x">>
k_version == <<"v", "e", "r", "s", "i", "o", "n">>
k_feature_infos == <<"f", "e", "a", "t", "u", "r", "e", "_", "i", "n", "f",
        "o", "s">>
k_objective == <<"o", "b", "j", "e", "c", "t", "i", "v", "e">>
k_Tree == <<"T", "r", "e", "e">>
k_num_leaves == <<"n", "u", "m", "_", "l", "e", "a", "v", "e", "s">>
k_num_cat == <<"n", "u", "m", "_", "c", "a", "t">>
k_split_feature == <<"s", "p", "l", "i", "t", "_", "f", "e", "a", "t", "u",
        "r", "e">>
k_threshold == <<"t", "h", "r", "e", "s", "h", "o", "l", "d">>
k_decision_type == <<"d", "e", "c", "i", "s", "i", "o", "n", "_", "t", "y",
        "p", "e">>
k_left_child == <<"l", "e", "f", "t", "_", "c", "h", "i", "l", "d">>
k_right_child == <<"r", "i", "g", "h", "t", "_", "c", "h", "i", "l", "d">>
k_leaf_value == <<"l", "e", "a", "f", "_", "v", "a", "l", "u", "e">>
k_cat_threshold == <<"c", "a", "t", "_", "t", "h", "r", "e", "s", "h", "o",
        "l", "d">>
k_cat_boundaries == <<"c", "a", "t", "_", "b", "o", "u", "n", "d", "a", "r",
        "i", "e", "s">>

ParsedValue(type, is_list, null_ok) ==
    [type |-> type, is_list |-> is_list, null_ok |-> null_ok]

INPUT_PARSED_KEYS ==
    LET keys == {k_max_feature_idx, k_version, k_feature_infos, k_objective}
    IN  [k \in keys |->
            IF k = k_max_feature_idx THEN ParsedValue("int", FALSE, FALSE)
            ELSE IF k = k_version THEN ParsedValue("str", FALSE, FALSE)
            ELSE ParsedValue("str", TRUE, FALSE)]

TREE_PARSED_KEYS ==
    LET keys == {k_Tree, k_num_leaves, k_num_cat, k_split_feature, k_threshold,
                 k_decision_type, k_left_child, k_right_child, k_leaf_value,
                 k_cat_threshold, k_cat_boundaries}
    IN  [k \in keys |->
            IF k \in {k_Tree, k_num_leaves, k_num_cat}
            THEN ParsedValue("int", FALSE, FALSE)
            ELSE IF k \in {k_threshold, k_leaf_value}
            THEN ParsedValue("float", TRUE, FALSE)
            ELSE IF k \in {k_cat_threshold, k_cat_boundaries}
            THEN ParsedValue("int", TRUE, TRUE)
            ELSE ParsedValue("int", TRUE, FALSE)]

\* value_type.type(x)
Coerce(type, x) ==
    IF type = "int" THEN int(x)
    ELSE IF type = "float" THEN float(x)
    ELSE Ok(x)

\* the values a struct holds: a scalar, a list, or None
PyVal(t, v) == [t |-> t, v |-> v]
None == PyVal("None", <<>>)
IsNone(x) == x.t = "None"

\* what the loop body does with one line: skip |-> TRUE when the line
\* leaves the struct alone
LineSkipped == [ok |-> TRUE, exc |-> "none", skip |-> TRUE, key |-> <<>>, val |-> None]
LineFailed(e) == [ok |-> FALSE, exc |-> e, skip |-> TRUE, key |-> <<>>, val |-> None]
LineSets(key, r) ==
    IF r.ok THEN [ok |-> TRUE, exc |-> "none", skip |-> FALSE, key |-> key, val |-> r.v]
    ELSE LineFailed(r.exc)

\* [value_type.type(x) for x in value.split(" ")], conv the converted items
ListOf(conv) ==
    IF \A i \in 1..Len(conv) : conv[i].ok
    THEN Ok(PyVal("list", [i \in 1..Len(conv) |-> conv[i].v]))
    ELSE Raise("ValueError")

CoerceAll(type, items) == ListOf([i \in 1..Len(items) |-> Coerce(type, items[i])])

ScalarOf(type, one) == IF one.ok THEN Ok(PyVal(type, one.v)) ELSE Raise(one.exc)

\* lines 126-132: parsed_value for a key of the schema
ParsedValueOf(value_type, value) ==
    IF value_type.is_list
    THEN IF value /= <<>> THEN CoerceAll(value_type.type, split(value, " "))
         ELSE Ok(PyVal("list", <<>>))
    ELSE ScalarOf(value_type.type, Coerce(value_type.type, value))

\* key, value = line.split("="), parts being line.split("=")
StructPair(parts, keys_to_parse) ==
    IF Len(parts) /= 2 THEN LineFailed("ValueError")
    ELSE IF parts[1] \notin DOMAIN keys_to_parse THEN LineSkipped
    ELSE LineSets(parts[1], ParsedValueOf(keys_to_parse[parts[1]], parts[2]))

\* the body of the loop over the lines of a block
StructLine(line, keys_to_parse) ==
    IF line = s_tree THEN LineSkipped
    ELSE StructPair(split(line, "="), keys_to_parse)

RECURSIVE StructLines(_, _, _, _)

\* struct after line i, r being what the loop body did with it
StructStep(lns, i, keys_to_parse, struct, r) ==
    IF ~r.ok THEN Raise(r.exc)
    ELSE IF r.skip THEN StructLines(lns, i + 1, keys_to_parse, struct)
    ELSE StructLines(lns, i + 1, keys_to_parse,
            [k \in DOMAIN struct \cup {r.key} |->
                IF k = r.key THEN r.val ELSE struct[k]])

\* the loop over the lines from line i on, struct holding the keys set so far
StructLines(lns, i, keys_to_parse, struct) ==
    IF i > Len(lns) THEN Ok(struct)
    ELSE StructStep(lns, i, keys_to_parse, struct,
                    StructLine(lns[i], keys_to_parse))

\* lines 135-140: the keys the block did not set
FillMissing(filled, keys_to_parse) ==
    IF ~filled.ok THEN filled
    ELSE IF \E key \in DOMAIN keys_to_parse \ DOMAIN filled.v :
                ~keys_to_parse[key].null_ok
    THEN Raise("AssertionError")
    ELSE Ok([k \in DOMAIN keys_to_parse |->
                IF k \in DOMAIN filled.v THEN filled.v[k] ELSE None])

_struct_from_block(lns, keys_to_parse) ==
    FillMissing(StructLines(lns, 1, keys_to_parse, <<>>), keys_to_parse)

_parse_tree(lns) == _struct_from_block(lns, TREE_PARSED_KEYS)

---------------------------------------------------------------------------
(* _get_next_block_of_lines and parse_model_file.                          *)

\* the first loop: the offset of the first line that is not "\n"
RECURSIVE SkipBlankLines(_, _)
SkipBlankLines(s, p) ==
    IF readline(s, p) = <<NL>> THEN SkipBlankLines(s, tell(s, p)) ELSE p

\* the second loop: stripped lines up to a "\n" line or the end of the file
RECURSIVE CollectLines(_, _, _)
CollectLines(s, p, result) ==
    LET line == readline(s, p)
    IN  IF line /= <<NL>> /\ line /= <<>>
        THEN CollectLines(s, tell(s, p), Append(result, strip(line)))
        ELSE [result |-> result, pos |-> tell(s, p)]

\* the second loop alone
BlockWithoutSkip(s, p) == CollectLines(s, p, <<>>)

_get_next_block_of_lines(s, p) == CollectLines(s, SkipBlankLines(s, p), <<>>)

\* assert lines[0] == "tree" and lines[1].startswith("version=")
HeaderCheck(lns) ==
    IF Len(lns) = 0 THEN "IndexError"
    ELSE IF lns[1] /= s_tree THEN "AssertionError"
    ELSE IF Len(lns) < 2 THEN "IndexError"
    ELSE IF ~startswith(lns[2], s_version_eq) THEN "AssertionError"
    ELSE "none"

Raised(e) ==
    /\ pc' = "raised"
    /\ exc' = e

\* the call parse_pandas_categorical(file_path)
CallPandas ==
    /\ pc' = "scan"
    /\ offset' = 0 - Len(pandas_key)
    /\ blines' = <<>>

\* lines 29-48: the header block, and the first block after it
ParseHeader ==
    /\ pc = "header"
    /\ LET b   == _get_next_block_of_lines(file, pos)
           chk == HeaderCheck(b.result)
           gi  == _struct_from_block(b.result, INPUT_PARSED_KEYS)
           nb  == _get_next_block_of_lines(file, b.pos)
       IN  IF chk /= "none"
           THEN Raised(chk) /\ UNCHANGED <<pos, lines, res, ret>>
           ELSE IF ~gi.ok
           THEN Raised(gi.exc) /\ UNCHANGED <<pos, lines, res, ret>>
           ELSE IF input.general_info_only
           THEN /\ pc' = "returned"
                /\ res' = [trees |-> <<>>, general_info |-> gi.v]
                /\ ret' = res'
                /\ pos' = b.pos
                /\ UNCHANGED <<exc, lines>>
           ELSE /\ pc' = "blocks"
                /\ res' = [trees |-> <<>>, general_info |-> gi.v]
                /\ lines' = nb.result
                /\ pos' = nb.pos
                /\ UNCHANGED <<exc, ret>>
    /\ UNCHANGED <<file, input, offset, blines, trees, predictVars>>

\* the loop body for a block that starts with "Tree=", and the next read
TreeBlock ==
    /\ pc = "blocks"
    /\ lines /= <<>>
    /\ startswith(lines[1], s_Tree_eq)
    /\ LET t  == _parse_tree(lines)
           nb == _get_next_block_of_lines(file, pos)
       IN  IF ~t.ok
           THEN Raised(t.exc) /\ UNCHANGED <<pos, lines, res>>
           ELSE /\ res' = [res EXCEPT !.trees = Append(@, t.v)]
                /\ lines' = nb.result
                /\ pos' = nb.pos
                /\ UNCHANGED <<pc, exc>>
    /\ UNCHANGED <<file, input, offset, blines, trees, ret, predictVars>>

\* the loop body for any other block: assert lines[0] == "end of trees"; break
EndBlock ==
    /\ pc = "blocks"
    /\ lines /= <<>>
    /\ ~startswith(lines[1], s_Tree_eq)
    /\ IF lines[1] = s_end_of_trees
       THEN CallPandas /\ UNCHANGED exc
       ELSE Raised("AssertionError") /\ UNCHANGED <<offset, blines>>
    /\ UNCHANGED <<file, input, pos, lines, res, trees, ret, predictVars>>

\* while lines: the loop ends on the empty block of the end of the file
NoBlock ==
    /\ pc = "blocks"
    /\ lines = <<>>
    /\ CallPandas
    /\ UNCHANGED <<file, input, exc, pos, lines, res, trees, ret, predictVars>>

\* lines 20-25 and 56-57, called by parse_model_file for parse_to_forest
InspectInModel ==
    /\ pc = "inspect"
    /\ input.entry = "parse_to_forest"
    /\ LET r == InspectLines(blines)
       IN  IF r.ok
           THEN /\ res' = [trees |-> res.trees, general_info |-> res.general_info,
                           pandas_categorical |-> r.v]
                /\ pc' = "build"
                /\ UNCHANGED exc
           ELSE Raised(r.exc) /\ UNCHANGED res
    /\ UNCHANGED <<file, input, pos, lines, offset, blines, trees, ret, predictVars>>

---------------------------------------------------------------------------
(* The frontend classes Leaf, Node, Tree and Forest, which parse_to_forest *)
(* imports.  An object carries the id it was given when constructed; a     *)
(* reference to an object is its id.                                       *)

NoRef == <<>>

Leaf(id, idx, value) == [id |-> id, idx |-> idx, value |-> value]

Node(id, idx, split_feature, threshold, decision_type_id, left_idx, right_idx) ==
    [id |-> id, idx |-> idx, split_feature |-> split_feature,
     threshold |-> threshold, decision_type_id |-> decision_type_id,
     left_idx |-> left_idx, right_idx |-> right_idx,
     left |-> NoRef, right |-> NoRef, cat_threshold |-> None]

\* the categorical bit of decision_type
is_categorical(decision_type_id) == decision_type_id % 2 = 1

finalize_categorical(node, cat_threshold) ==
    [node EXCEPT !.cat_threshold = PyVal("int", cat_threshold)]

add_children(node, left, right) ==
    [node EXCEPT !.left = left, !.right = right]

\* "none", or the exception validate() raises
validate(node) ==
    IF node.left = NoRef \/ node.right = NoRef THEN "AssertionError"
    ELSE IF is_categorical(node.decision_type_id) /\ IsNone(node.cat_threshold)
    THEN "AssertionError"
    ELSE "none"

\* leaves and nodes are the objects the tree holds, root a reference
Tree(tree_index, root, n_args, leaves, nodes) ==
    [tree_index |-> tree_index, root |-> root, n_args |-> n_args,
     leaves |-> leaves, nodes |-> nodes]

Forest(trs, n_args) == [trees |-> trs, n_args |-> n_args]

---------------------------------------------------------------------------
(* parse_to_forest                                                         *)

\* len(list(zip(a, b, c, d, e)))
ZipLen(a, b, c, d, e) == SetMin({Len(a), Len(b), Len(c), Len(d), Len(e)})

\* [idx for idx, decision_type in enumerate(...) if decision_type == 1]
CategoricalNodes(decision_type) ==
    LET hit == {i \in 1..Len(decision_type) : decision_type[i] = 1}
    IN  [n \in 1..Cardinality(hit) |->
            (CHOOSE i \in hit : Cardinality({j \in hit : j < i}) = n - 1) - 1]

\* what a categorical node is finalized with: tree_struct["cat_threshold"][i]
CatPayload(cat_threshold, i) == cat_threshold[i + 1]

\* leaves[abs(idx)] if idx < 0 else nodes[idx]
ResolveChildAbs(leaves, nodes, idx) ==
    IF idx < 0
    THEN IF 0 - idx < Len(leaves) THEN Ok(leaves[0 - idx + 1].id) ELSE Raise("IndexError")
    ELSE IF idx < Len(nodes) THEN Ok(nodes[idx + 1].id) ELSE Raise("IndexError")

\* leaves[abs(idx) - 1] if idx < 0 else nodes[idx]
ResolveChild(leaves, nodes, idx) ==
    IF idx < 0
    THEN IF 0 - idx - 1 < Len(leaves)
         THEN Ok(leaves[(0 - idx - 1) + 1].id) ELSE Raise("IndexError")
    ELSE IF idx < Len(nodes) THEN Ok(nodes[idx + 1].id) ELSE Raise("IndexError")

\* the body of the loop over parsed_model["trees"] for the k-th tree_struct
BuildTreeOf(tree_struct, n_args, k) ==
    LET n_cat   == tree_struct[k_num_cat].v
        dt      == tree_struct[k_decision_type].v
        sf      == tree_struct[k_split_feature].v
        th      == tree_struct[k_threshold].v
        lc      == tree_struct[k_left_child].v
        rc      == tree_struct[k_right_child].v
        lv      == tree_struct[k_leaf_value].v
        ct      == tree_struct[k_cat_threshold]
        n_nodes == Len(dt)
        leaves  == [i \in 1..Len(lv) |-> Leaf(<<k, "Leaf", i - 1>>, i - 1, lv[i])]
        nodes0  == [i \in 1..ZipLen(sf, th, dt, lc, rc) |->
                       Node(<<k, "Node", i - 1>>, i - 1, sf[i], th[i], dt[i],
                            lc[i], rc[i])]
        categorical_nodes == CategoricalNodes(dt)
        nodes1  == [j \in 1..Len(nodes0) |->
                       IF \E i \in 1..Len(categorical_nodes) :
                              categorical_nodes[i] = j - 1
                       THEN finalize_categorical(nodes0[j],
                              CatPayload(ct.v,
                                (CHOOSE i \in 1..Len(categorical_nodes) :
                                     categorical_nodes[i] = j - 1) - 1))
                       ELSE nodes0[j]]
        lref(j) == ResolveChild(leaves, nodes1, nodes1[j].left_idx)
        rref(j) == ResolveChild(leaves, nodes1, nodes1[j].right_idx)
        nodes2  == [j \in 1..Len(nodes1) |->
                       add_children(nodes1[j], lref(j).v, rref(j).v)]
    IN  IF Len(nodes0) /= n_nodes THEN Raise("AssertionError")
        ELSE IF Len(categorical_nodes) /= n_cat THEN Raise("AssertionError")
        ELSE IF Len(categorical_nodes) > 0 /\ IsNone(ct) THEN Raise("TypeError")
        ELSE IF Len(categorical_nodes) > Len(ct.v) THEN Raise("IndexError")
        ELSE IF \E j \in 1..Len(nodes1) : ~lref(j).ok \/ ~rref(j).ok
        THEN Raise("IndexError")
        ELSE IF \E j \in 1..Len(nodes2) : validate(nodes2[j]) /= "none"
        THEN Raise("AssertionError")
        ELSE IF Len(nodes2) = 0 THEN Raise("IndexError")
        ELSE Ok(Tree(tree_struct[k_Tree].v, nodes2[1].id, n_args, leaves, nodes2))

\* n_args = parsed_model["general_info"]["max_feature_idx"] + 1
n_args == res.general_info[k_max_feature_idx].v + 1

\* one pass of the loop over parsed_model["trees"]
BuildTree ==
    /\ pc = "build"
    /\ Len(trees) < Len(res.trees)
    /\ LET t == BuildTreeOf(res.trees[Len(trees) + 1], n_args, Len(trees))
       IN  IF t.ok
           THEN trees' = Append(trees, t.v) /\ UNCHANGED <<pc, exc>>
           ELSE Raised(t.exc) /\ UNCHANGED trees
    /\ UNCHANGED <<file, input, pos, lines, res, offset, blines, ret, predictVars>>

\* return Forest(trees, n_args)
ReturnForest ==
    /\ pc = "build"
    /\ Len(trees) = Len(res.trees)
    /\ ret' = Forest(trees, n_args)
    /\ pc' = "returned"
    /\ UNCHANGED <<file, input, exc, pos, lines, res, offset, blines, trees, predictVars>>

---------------------------------------------------------------------------
(* The text of a model file, written from a description of its blocks.     *)

t_v3 == <<"v", "3">>
t_binary == <<"b", "i", "n", "a", "r", "y">>
t_parameters == <<"p", "a", "r", "a", "m", "e", "t", "e", "r", "s", ":">>
t_end_of_parameters == <<"e", "n", "d", " ", "o", "f", " ", "p", "a", "r",
        "a", "m", "e", "t", "e", "r", "s">>
t_feature_importances == <<"f", "e", "a", "t", "u", "r", "e", "_", "i", "m",
        "p", "o", "r", "t", "a", "n", "c", "e", "s", ":">>
t_json_empty == <<"[", "]">>
t_json_eq == <<"[", "\"", "a", "=", "b", "\"", "]">>

RECURSIVE NatText(_)
NatText(n) ==
    IF n < 10 THEN <<Digits[n + 1]>>
    ELSE NatText(n \div 10) \o <<Digits[(n % 10) + 1]>>

IntText(n) == IF n < 0 THEN <<"-">> \o NatText(0 - n) ELSE NatText(n)

Zeros(n) == [i \in 1..n |-> "0"]

\* the digits of m * 10^-e in positional notation
Positional(m, e) ==
    IF m = <<>> THEN <<"0">>
    ELSE IF e <= 0 THEN m \o Zeros(0 - e)
    ELSE IF Len(m) > e
         THEN SubSeq(m, 1, Len(m) - e) \o <<".">> \o SubSeq(m, Len(m) - e + 1, Len(m))
    ELSE <<"0", ".">> \o Zeros(e - Len(m)) \o m

\* the digits of m[1].m[2..] * 10^x in scientific notation, the exponent
\* with its sign and two digits at least
Scientific(m, x) ==
    <<m[1]>> \o (IF Len(m) > 1 THEN <<".">> \o Tail(m) ELSE <<>>)
    \o <<"e", IF x < 0 THEN "-" ELSE "+">>
    \o (IF x > 0 - 10 /\ x < 10 THEN <<"0">> ELSE <<>>)
    \o NatText(IF x < 0 THEN 0 - x ELSE x)

\* the text of the finite float x as repr() and LightGBM write it:
\* scientific when the exponent is below -4 or from 16 on
FloatText(x) ==
    (IF x.neg THEN <<"-">> ELSE <<>>)
    \o (IF x.m /= <<>> /\ (Len(x.m) - x.e - 1 < 0 - 4 \/ Len(x.m) - x.e - 1 >= 16)
        THEN Scientific(x.m, Len(x.m) - x.e - 1)
        ELSE Positional(x.m, x.e))

RECURSIVE JoinWith(_, _)
JoinWith(ts, sep) ==
    IF ts = <<>> THEN <<>>
    ELSE IF Len(ts) = 1 THEN ts[1]
    ELSE Head(ts) \o <<sep>> \o JoinWith(Tail(ts), sep)

IntList(xs) == JoinWith([i \in 1..Len(xs) |-> IntText(xs[i])], " ")
FloatList(xs) == JoinWith([i \in 1..Len(xs) |-> FloatText(xs[i])], " ")
KeyValue(key, text) == key \o <<"=">> \o text

HeaderBlock(kind) ==
    (IF kind = "ok" THEN <<s_tree>> ELSE <<>>)
    \o <<KeyValue(k_version, t_v3),
         KeyValue(k_max_feature_idx, IntText(1)),
         KeyValue(k_feature_infos, <<>>),
         KeyValue(k_objective, t_binary)>>

TreeBlockOf(t) ==
    <<KeyValue(k_Tree, IntText(t.Tree)),
      KeyValue(k_num_leaves, IntText(t.num_leaves)),
      KeyValue(k_num_cat, IntText(t.num_cat)),
      KeyValue(k_split_feature, IntList(t.split_feature)),
      KeyValue(k_threshold, FloatList(t.threshold)),
      KeyValue(k_decision_type, IntList(t.decision_type)),
      KeyValue(k_left_child, IntList(t.left_child)),
      KeyValue(k_right_child, IntList(t.right_child)),
      KeyValue(k_leaf_value, FloatList(t.leaf_value))>>
    \o (IF t.cat_boundaries.null THEN <<>>
        ELSE <<KeyValue(k_cat_boundaries, IntList(t.cat_boundaries.v))>>)
    \o (IF t.cat_threshold.null THEN <<>>
        ELSE <<KeyValue(k_cat_threshold, IntList(t.cat_threshold.v))>>)

PandasLine(json) == pandas_key \o json

\* the blocks of the file: the header, the trees, and what follows them
BlocksOf(in) ==
    LET body == <<HeaderBlock(in.header)>>
                \o [i \in 1..Len(in.trees) |-> TreeBlockOf(in.trees[i])]
        n    == Len(body)
    IN  IF in.ending = "end"
        THEN body \o <<<<s_end_of_trees>>, <<t_parameters, t_end_of_parameters>>,
                       <<PandasLine(t_json_empty)>>>>
        ELSE IF in.ending = "end_nopandas"
        THEN body \o <<<<s_end_of_trees>>, <<t_parameters, t_end_of_parameters>>>>
        ELSE IF in.ending = "other"
        THEN body \o <<<<t_feature_importances>>, <<PandasLine(t_json_empty)>>>>
        ELSE IF in.ending = "eof_pandas"
        THEN [body EXCEPT ![n] = Append(@, PandasLine(t_json_eq))]
        ELSE body

\* the line terminators files are written with
LF == <<NL>>
CRLF == <<CR, NL>>

BlockText(b, eol) == Concat([i \in 1..Len(b) |-> b[i] \o eol])

\* the blocks, each line ended by eol, with gap blank lines between blocks
RECURSIVE FileText(_, _, _)
FileText(bs, gap, eol) ==
    IF bs = <<>> THEN <<>>
    ELSE IF Len(bs) = 1 THEN BlockText(bs[1], eol)
    ELSE BlockText(bs[1], eol) \o Concat([i \in 1..gap |-> eol])
         \o FileText(Tail(bs), gap, eol)

ModelFile(in) == FileText(BlocksOf(in), in.gap, in.eol)

---------------------------------------------------------------------------
(* The tree records the files are written from.                            *)

MaxTrees == 2
MaxNodes == 2

IntOpt(null, v) == [null |-> null, v |-> v]
NoCat == IntOpt(TRUE, <<>>)

Tenths(m) == Decimal(m < 0, NatText(IF m < 0 THEN 0 - m ELSE m), 1)
Whole(m) == Decimal(m < 0, NatText(IF m < 0 THEN 0 - m ELSE m), 0)

\* a chain of n nodes and n + 1 leaves: node i has leaf i on the left and
\* node i + 1 (the last one: leaf n) on the right
ChainSplit(len) == [i \in 1..len |-> (i - 1) % 2]
ChainThreshold(len) == [i \in 1..len |-> Tenths(10 * (i - 1) + 5)]
ChainLeft(len) == [i \in 1..len |-> 0 - i]
ChainRight(n, len) == [i \in 1..len |-> IF i < n THEN i ELSE 0 - (n + 1)]
ChainLeaves(len) == [i \in 1..len |-> IF i = 1 THEN Tenths(0 - 5) ELSE Whole(i)]

TreeRecord(idx, n_cat, sf, th, dt, lc, rc, lv, ct, cb) ==
    [Tree |-> idx, num_leaves |-> Len(lv), num_cat |-> n_cat,
     split_feature |-> sf, threshold |-> th, decision_type |-> dt,
     left_child |-> lc, right_child |-> rc, leaf_value |-> lv,
     cat_threshold |-> ct, cat_boundaries |-> cb]

Chain(idx, n) ==
    TreeRecord(idx, 0, ChainSplit(n), ChainThreshold(n), [i \in 1..n |-> 0],
               ChainLeft(n), ChainRight(n, n), ChainLeaves(n + 1), NoCat, NoCat)

\* 1.0000000180025095e-35, LightGBM's threshold of a split at zero, and
\* -2.5e-05
kZeroThreshold ==
    Decimal(FALSE, <<"1", "0", "0", "0", "0", "0", "0", "0", "1", "8", "0", "0",
                     "2", "5", "0", "9", "5">>, 51)
SmallLeaf == Decimal(TRUE, <<"2", "5">>, 6)

\* well-formed trees, told apart by their index and their shape
TreeMenu ==
    {Chain(7, 1),
     [Chain(3, 2) EXCEPT !.threshold = <<kZeroThreshold, Tenths(15)>>,
                         !.leaf_value = <<Tenths(0 - 5), SmallLeaf, Whole(3)>>],
     [Chain(5, 2) EXCEPT !.decision_type = <<1, 0>>, !.num_cat = 1,
                         !.cat_boundaries = IntOpt(FALSE, <<0, 1>>),
                         !.cat_threshold = IntOpt(FALSE, <<6>>)]}

\* the five parallel arrays of every length within one of decision_type's
Deltas == {0 - 1, 0, 1}
LengthTrees ==
    UNION {
        {TreeRecord(0, 0, ChainSplit(n + d[1]), ChainThreshold(n + d[2]),
                    [i \in 1..n |-> 0], ChainLeft(n + d[3]),
                    ChainRight(n, n + d[4]), ChainLeaves(n + 1), NoCat, NoCat) :
            d \in {e \in [1..4 -> Deltas] : \A i \in 1..4 : n + e[i] >= 0}} :
        n \in 0..MaxNodes}

\* the chain with up to two child entries replaced by any index in or
\* one past the range
ChildTrees ==
    UNION {
        {[Chain(0, n) EXCEPT
            !.left_child  = [i \in 1..n |->
                IF s1 = i THEN v1 ELSE IF s2 = i THEN v2 ELSE ChainLeft(n)[i]],
            !.right_child = [i \in 1..n |->
                IF s1 = n + i THEN v1 ELSE IF s2 = n + i THEN v2
                ELSE ChainRight(n, n)[i]]] :
            s1 \in 1..(2 * n), s2 \in 1..(2 * n),
            v1 \in (0 - (n + 2))..n, v2 \in (0 - (n + 2))..n} :
        n \in 1..MaxNodes}

\* decision types, num_cat and the categorical arrays of the chain
DecisionTypes == {0, 1, 2, 3}
CatArrays ==
    {<<NoCat, NoCat>>,
     <<IntOpt(FALSE, <<0, 1, 2, 3>>), IntOpt(FALSE, <<5, 6, 7>>)>>,
     <<IntOpt(FALSE, <<0, 2, 3, 4>>), IntOpt(FALSE, <<5, 6, 7, 8>>)>>,
     <<IntOpt(FALSE, <<0, 1>>), IntOpt(FALSE, <<5>>)>>}
CatTrees ==
    UNION {
        {[Chain(0, n) EXCEPT !.decision_type = dt, !.num_cat = nc,
                             !.cat_boundaries = ca[1], !.cat_threshold = ca[2]] :
            dt \in [1..n -> DecisionTypes], nc \in 0..n, ca \in CatArrays} :
        n \in 1..MaxNodes}

Headers == {"ok", "bad"}
Endings == {"end", "end_nopandas", "other", "eof", "eof_pandas"}

ForestInput(header, gap, trs, ending, eol) ==
    [entry |-> "parse_to_forest", general_info_only |-> FALSE,
     header |-> header, gap |-> gap, trees |-> trs, ending |-> ending,
     eol |-> eol]

\* files of up to MaxTrees well-formed trees, with every header and ending
StructureInputs ==
    {ForestInput(h, g, trs, e, eol) :
        h \in Headers, g \in {1, 2},
        trs \in UNION {[1..n -> TreeMenu] : n \in 0..MaxTrees},
        e \in Endings, eol \in {LF, CRLF}}

\* well-formed files of one tree
TreeInputs ==
    {ForestInput("ok", 1, <<t>>, "end", LF) :
        t \in LengthTrees \cup ChildTrees \cup CatTrees}

\* parse_model_file(path, general_info_only=True)
InfoInputs ==
    {[entry |-> "parse_model_file", general_info_only |-> TRUE,
      header |-> h, gap |-> 1, trees |-> <<>>, ending |-> e, eol |-> eol] :
        h \in Headers, e \in Endings, eol \in {LF, CRLF}}

Init ==
    /\ input \in StructureInputs \cup TreeInputs \cup InfoInputs
    /\ file = ModelFile(input)
    /\ pc = "header"
    /\ exc = "none"
    /\ pos = 0
    /\ lines = <<>>
    /\ res = [trees |-> <<>>]
    /\ offset = 0
    /\ blines = <<>>
    /\ trees = <<>>
    /\ ret = <<>>
    /\ n_jobs = 0 /\ batchsize = 0 /\ next_i = 0 /\ tasks = <<>> /\ predictions = <<>>

Next ==
    \/ ParseHeader
    \/ TreeBlock
    \/ EndBlock
    \/ NoBlock
    \/ ScanRead
    \/ ScanCheck
    \/ InspectInModel
    \/ BuildTree
    \/ ReturnForest

Spec == Init /\ [][Next]_vars

---------------------------------------------------------------------------
(* Files for parse_pandas_categorical: up to MaxLines lines, each a marker *)
(* line or a filler, with or without the final line break.  The marker     *)
(* lines hold what LightGBM writes: null, or json.dumps of a list of lists.*)

MaxLines == 3
FillerLens == {0, 1, 17, 18, 19, 40}
JsonTexts == {<<"n", "u", "l", "l">>,
              <<"[", "]">>,
              <<"[", "[", "1", ",", " ", "2", "]", ",", " ", "[", "\"", "a", "\"", "]", "]">>}

Filler(n) == [i \in 1..n |-> "x"]
CatLineMenu == {pandas_key \o j : j \in JsonTexts} \cup {Filler(n) : n \in FillerLens}

RECURSIVE JoinLines(_, _)
JoinLines(ls, eol) ==
    IF ls = <<>> THEN <<>>
    ELSE IF Len(ls) = 1 THEN ls[1]
    ELSE Head(ls) \o eol \o JoinLines(Tail(ls), eol)

CatInputs ==
    {[entry |-> "parse_pandas_categorical", ls |-> ls, final_nl |-> nl,
      eol |-> eol] :
        ls \in UNION {[1..n -> CatLineMenu] : n \in 0..MaxLines},
        nl \in BOOLEAN, eol \in {LF, CRLF}}

CatFile(in) ==
    JoinLines(in.ls, in.eol) \o (IF in.final_nl THEN in.eol ELSE <<>>)

InitCat ==
    /\ input \in CatInputs
    /\ file = CatFile(input)
    /\ pc = "scan"
    /\ exc = "none"
    /\ offset = 0 - Len(pandas_key)
    /\ blines = <<>>
    /\ pos = 0 /\ lines = <<>> /\ res = <<>> /\ trees = <<>> /\ ret = <<>>
    /\ n_jobs = 0 /\ batchsize = 0 /\ next_i = 0 /\ tasks = <<>> /\ predictions = <<>>

NextCat == ScanRead \/ ScanCheck \/ Inspect

SpecCat == InitCat /\ [][NextCat]_vars

\* the call is one thread of control, which takes its next step
SpecCatFair == SpecCat /\ WF_vars(NextCat)

---------------------------------------------------------------------------
(* _struct_from_block on its own: a block, and the same block with one     *)
(* more line whose key is in neither schema.                               *)

t_feature_names == <<"f", "e", "a", "t", "u", "r", "e", "_", "n", "a", "m",
        "e", "s">>
t_shrinkage == <<"s", "h", "r", "i", "n", "k", "a", "g", "e">>

UnknownKeys == {t_feature_names, t_shrinkage}
ValueTexts == {<<>>, <<"1">>, <<"a", " ", "b">>, <<"a", "=", "b">>,
               <<"=">>, <<" ">>}

Schema(name) == IF name = "input" THEN INPUT_PARSED_KEYS ELSE TREE_PARSED_KEYS

BaseBlocks ==
    {[schema |-> "input", block |-> HeaderBlock("ok")]}
    \cup {[schema |-> "tree", block |-> TreeBlockOf(t)] : t \in TreeMenu}

InsertLine(block, at, line) ==
    SubSeq(block, 1, at) \o <<line>> \o SubSeq(block, at + 1, Len(block))

StructInputs ==
    UNION {
        {[entry |-> "_struct_from_block", schema |-> b.schema, base |-> b.block,
          extra |-> KeyValue(k, v), at |-> at] :
            k \in UnknownKeys, v \in ValueTexts, at \in 0..Len(b.block)} :
        b \in BaseBlocks}

InitStruct ==
    /\ input \in StructInputs
    /\ lines = InsertLine(input.base, input.at, input.extra)
    /\ pc = "decode"
    /\ exc = "none"
    /\ ret = <<>>
    /\ file = <<>> /\ pos = 0 /\ res = <<>> /\ offset = 0 /\ blines = <<>>
    /\ trees = <<>>
    /\ n_jobs = 0 /\ batchsize = 0 /\ next_i = 0 /\ tasks = <<>> /\ predictions = <<>>

\* the call _struct_from_block(lines, keys_to_parse)
DecodeBlock ==
    /\ pc = "decode"
    /\ LET r == _struct_from_block(lines, Schema(input.schema))
       IN  /\ exc' = r.exc
           /\ ret' = r.v
           /\ pc' = IF r.ok THEN "returned" ELSE "raised"
    /\ UNCHANGED <<input, parserVars, predictVars>>

NextStruct == DecodeBlock

SpecStruct == InitStruct /\ [][NextStruct]_vars

---------------------------------------------------------------------------
(* Model.predict: the calls of the compiled entry function.  A call writes *)
(* the rows of its range one by one; the calls submitted to the executor   *)
(* run on at most n_jobs worker threads.                                   *)

MaxRows == 5
MaxJobs == 16
Int32Limit == 2147483647

\* n_jobs |-> 0 stands for n_jobs=None
PredictInputs ==
    {[entry |-> "predict", is_compiled |-> c, shape_ok |-> sh,
      n_predictions |-> n, n_jobs |-> j] :
        c \in BOOLEAN, sh \in BOOLEAN,
        n \in 0..MaxRows \cup {Int32Limit}, j \in 0..MaxJobs}

InitPredict ==
    /\ input \in PredictInputs
    /\ pc = "predict"
    /\ exc = "none"
    /\ ret = <<>>
    /\ n_jobs = input.n_jobs
    /\ batchsize = 0
    /\ next_i = 0
    /\ tasks = <<>>
    /\ predictions = <<>>
    /\ file = <<>> /\ pos = 0 /\ lines = <<>> /\ res = <<>> /\ offset = 0
    /\ blines = <<>> /\ trees = <<>>

\* math.ceil(n_predictions / n_jobs)
BatchSize(n, jobs) == (n + jobs - 1) \div jobs

\* start_idx + batchsize
BatchEndNoMin(start_idx, size, n) == start_idx + size

\* min(start_idx + batchsize, n_predictions)
BatchEnd(start_idx, size, n) ==
    IF start_idx + size < n THEN start_idx + size ELSE n

Call(start, end, state) == [start |-> start, end |-> end, at |-> start, state |-> state]

\* lines 171-172: n_jobs = os.cpu_count(), which is the number of CPUs of
\* the machine, or None (written 0) when it cannot be determined
CpuCount ==
    /\ pc = "predict"
    /\ n_jobs = 0
    /\ \E c \in 0..MaxJobs : n_jobs' = c
    /\ pc' = "checks"
    /\ UNCHANGED <<input, exc, ret, parserVars, batchsize, next_i, tasks,
                   predictions>>

\* lines 174-209: the checks, the arrays, and the choice of the branch
PredictStart ==
    /\ \/ pc = "predict" /\ n_jobs /= 0
       \/ pc = "checks"
    /\ LET n == input.n_predictions
       IN  IF ~input.is_compiled
           THEN Raised("RuntimeError")
                /\ UNCHANGED <<batchsize, next_i, tasks, predictions>>
           ELSE IF ~input.shape_ok \/ n >= Int32Limit
           THEN Raised("ValueError")
                /\ UNCHANGED <<batchsize, next_i, tasks, predictions>>
           ELSE IF n_jobs = 1
           THEN /\ pc' = "call"
                /\ predictions' = [r \in 0..(n - 1) |-> 0]
                /\ tasks' = <<Call(0, n, "running")>>
                /\ UNCHANGED <<exc, batchsize, next_i>>
           ELSE IF n_jobs = 0
           THEN \* math.ceil(n_predictions / None), line 207
                Raised("TypeError")
                /\ predictions' = [r \in 0..(n - 1) |-> 0]
                /\ UNCHANGED <<batchsize, next_i, tasks>>
           ELSE IF BatchSize(n, n_jobs) = 0
           THEN Raised("ValueError")
                /\ batchsize' = BatchSize(n, n_jobs)
                /\ predictions' = [r \in 0..(n - 1) |-> 0]
                /\ UNCHANGED <<next_i, tasks>>
           ELSE /\ pc' = "submit"
                /\ batchsize' = BatchSize(n, n_jobs)
                /\ predictions' = [r \in 0..(n - 1) |-> 0]
                /\ next_i' = 0
                /\ UNCHANGED <<exc, tasks>>
    /\ UNCHANGED <<input, ret, parserVars, n_jobs>>

\* executor.submit(lambda start_idx: ..., i) for the next i of the range
Submit ==
    /\ pc = "submit"
    /\ next_i < input.n_predictions
    /\ tasks' = Append(tasks,
                  Call(next_i, BatchEnd(next_i, batchsize, input.n_predictions),
                       "queued"))
    /\ next_i' = next_i + batchsize
    /\ UNCHANGED <<input, pc, exc, ret, parserVars, n_jobs, batchsize, predictions>>

Running == {t \in 1..Len(tasks) : tasks[t].state = "running"}
Queued == {t \in 1..Len(tasks) : tasks[t].state = "queued"}

\* a worker thread of the pool takes the oldest submitted call
WorkerStart ==
    /\ Queued /= {}
    /\ Cardinality(Running) < n_jobs
    /\ tasks' = [tasks EXCEPT ![SetMin(Queued)].state = "running"]
    /\ UNCHANGED <<input, pc, exc, ret, parserVars, n_jobs, batchsize, next_i,
                   predictions>>

\* the entry function writes the next row of its range
EntryWrite(t) ==
    /\ tasks[t].state = "running"
    /\ tasks[t].at < tasks[t].end
    /\ tasks[t].at \in DOMAIN predictions
    /\ predictions' = [predictions EXCEPT ![tasks[t].at] = @ + 1]
    /\ tasks' = [tasks EXCEPT ![t].at = @ + 1]
    /\ UNCHANGED <<input, pc, exc, ret, parserVars, n_jobs, batchsize, next_i>>

\* the entry function returns
EntryReturn(t) ==
    /\ tasks[t].state = "running"
    /\ tasks[t].at >= tasks[t].end
    /\ tasks' = [tasks EXCEPT ![t].state = "done"]
    /\ UNCHANGED <<input, pc, exc, ret, parserVars, n_jobs, batchsize, next_i,
                   predictions>>

AllDone == \A t \in 1..Len(tasks) : tasks[t].state = "done"

\* n_jobs == 1: the call made by predict itself has returned
ReturnSingle ==
    /\ pc = "call"
    /\ AllDone
    /\ pc' = "returned"
    /\ ret' = predictions
    /\ UNCHANGED <<input, exc, parserVars, predictVars>>

\* the submit loop is over, the with block has waited for every call
ReturnPooled ==
    /\ pc = "submit"
    /\ next_i >= input.n_predictions
    /\ AllDone
    /\ pc' = "returned"
    /\ ret' = predictions
    /\ UNCHANGED <<input, exc, parserVars, predictVars>>

NextPredict ==
    \/ CpuCount
    \/ PredictStart
    \/ Submit
    \/ WorkerStart
    \/ \E t \in 1..Len(tasks) : EntryWrite(t)
    \/ \E t \in 1..Len(tasks) : EntryReturn(t)
    \/ ReturnSingle
    \/ ReturnPooled

SpecPredict == InitPredict /\ [][NextPredict]_vars

---------------------------------------------------------------------------
(* Properties of parse_model_file and parse_to_forest, under Spec.         *)

HasLine(ls, text) == \E i \in 1..Len(ls) : strip(ls[i]) = text
EndOfTreesIn(s) == HasLine(readlines(s, 0), s_end_of_trees)

ForestReturned == input.entry = "parse_to_forest" /\ pc = "returned"
\* parse_to_forest raised after parse_model_file had returned
BuildFailed ==
    /\ input.entry = "parse_to_forest"
    /\ pc = "raised"
    /\ "pandas_categorical" \in DOMAIN res

\* the Tree holds the fields of the tree record t, position by position
BuiltFrom(tree, t) ==
    /\ tree.tree_index = t.Tree
    /\ Len(tree.nodes) = Len(t.decision_type)
    /\ Len(tree.leaves) = Len(t.leaf_value)
    /\ \A j \in 1..Len(tree.nodes) :
          /\ tree.nodes[j].split_feature = t.split_feature[j]
          /\ tree.nodes[j].threshold = t.threshold[j]
          /\ tree.nodes[j].decision_type_id = t.decision_type[j]
          /\ tree.nodes[j].left_idx = t.left_child[j]
          /\ tree.nodes[j].right_idx = t.right_child[j]
    /\ \A i \in 1..Len(tree.leaves) : tree.leaves[i].value = t.leaf_value[i]

\* a file of header, 'end of trees' and trailer, with no tree block
ZeroTreeFile ==
    /\ input.entry = "parse_to_forest"
    /\ input.header = "ok"
    /\ input.trees = <<>>
    /\ input.ending = "end"

\* C1: when parse_to_forest accepts a file with T tree blocks before its
\* 'end of trees' block, the Forest holds T Trees and the k-th Tree is
\* built from the k-th tree block; a file with T = 0 (header, 'end of
\* trees', trailer) does not fail, and its Forest is empty.
ForestHoldsTreeBlocksInOrder ==
    /\ (ForestReturned /\ EndOfTreesIn(file)) =>
          /\ Len(ret.trees) = Len(input.trees)
          /\ \A k \in 1..Len(ret.trees) : BuiltFrom(ret.trees[k], input.trees[k])
    /\ ZeroTreeFile =>
          /\ pc /= "raised"
          /\ exc = "none"
          /\ pc = "returned" => ret.trees = <<>>

\* the empty Forest returned for a file with no tree block
EmptyForestReturned ==
    /\ ZeroTreeFile
    /\ EndOfTreesIn(file)
    /\ ForestReturned
    /\ res.trees = <<>>
    /\ ret.trees = <<>>
    /\ ret.n_args = 2

\* a Forest of two different trees, in the order of their blocks
ForestOfTwoDifferentTrees ==
    /\ ForestReturned
    /\ EndOfTreesIn(file)
    /\ Len(input.trees) = 2
    /\ Len(ret.trees) = 2
    /\ ret.trees[1].tree_index /= ret.trees[2].tree_index
    /\ input.gap = 2

SameLength(rec) ==
    /\ Len(rec[k_split_feature].v) = Len(rec[k_decision_type].v)
    /\ Len(rec[k_threshold].v) = Len(rec[k_decision_type].v)
    /\ Len(rec[k_left_child].v) = Len(rec[k_decision_type].v)
    /\ Len(rec[k_right_child].v) = Len(rec[k_decision_type].v)

\* all five parallel arrays empty, num_cat = 0, exactly one leaf_value
ZeroNodeRecord(rec) ==
    /\ SameLength(rec)
    /\ Len(rec[k_decision_type].v) = 0
    /\ rec[k_num_cat].v = 0
    /\ Len(rec[k_leaf_value].v) = 1

\* C2: a tree record with zero internal nodes is built, without a failure,
\* into a Tree whose root is its sole Leaf; the root of a Tree with
\* internal nodes is nodes[0].
RootIsFirstNodeOrSoleLeaf ==
    /\ BuildFailed => ~ZeroNodeRecord(res.trees[Len(trees) + 1])
    /\ \A k \in 1..Len(trees) :
          trees[k].root = IF Len(trees[k].nodes) = 0
                          THEN trees[k].leaves[1].id
                          ELSE trees[k].nodes[1].id

\* the build of a record with no internal node ends in nodes[0]
ZeroNodeRecordRaises ==
    /\ BuildFailed
    /\ exc = "IndexError"
    /\ ZeroNodeRecord(res.trees[Len(trees) + 1])

\* C5: a tree record whose five parallel arrays do not all have the same
\* length is rejected: no Forest is returned for a file that holds one.
UnequalArraysRejected ==
    ForestReturned => \A k \in 1..Len(res.trees) : SameLength(res.trees[k])

\* a Forest returned for a record whose split_feature is the longer array
LongerArrayAccepted ==
    /\ ForestReturned
    /\ Len(res.trees) = 1
    /\ Len(res.trees[1][k_split_feature].v) > Len(res.trees[1][k_decision_type].v)
    /\ Len(ret.trees[1].nodes) = Len(res.trees[1][k_decision_type].v)

\* C6: the full parse of parse_model_file succeeds only on a file that
\* holds an 'end of trees' block after its tree blocks.
ParseNeedsEndOfTrees ==
    (input.entry = "parse_to_forest" /\ pc = "build") => EndOfTreesIn(file)

\* the trees read so far are returned at the end of the file
ParsedWithoutEndOfTrees ==
    /\ input.entry = "parse_to_forest"
    /\ pc = "build"
    /\ ~EndOfTreesIn(file)
    /\ Len(res.trees) = 2

ChildAt(tree, v) ==
    IF v < 0 THEN tree.leaves[(0 - v - 1) + 1] ELSE tree.nodes[v + 1]

InRange(tree, v) ==
    IF v < 0 THEN 0 - v <= Len(tree.leaves) ELSE v < Len(tree.nodes)

Objects(tree) ==
    {tree.leaves[i] : i \in 1..Len(tree.leaves)}
    \cup {[id |-> tree.nodes[j].id, idx |-> tree.nodes[j].idx] :
              j \in 1..Len(tree.nodes)}

\* the reference ref is to the object the raw index v names, and to no other
RefersTo(tree, ref, v) ==
    /\ ref /= NoRef
    /\ InRange(tree, v)
    /\ ref = ChildAt(tree, v).id
    /\ Cardinality({o \in Objects(tree) : o.id = ref}) = 1

\* C7: in every tree built, both children of every internal node are
\* attached; the child of raw index v is leaves[abs(v) - 1] when v < 0 and
\* nodes[v] when v >= 0, the object itself, so that equal raw indices
\* give the identical object.
ChildrenAreTheIndexedObjects ==
    \A k \in 1..Len(trees) : \A j \in 1..Len(trees[k].nodes) :
        /\ RefersTo(trees[k], trees[k].nodes[j].left, trees[k].nodes[j].left_idx)
        /\ RefersTo(trees[k], trees[k].nodes[j].right, trees[k].nodes[j].right_idx)

\* a tree in which -3 occurs twice, and a node index occurs as a child
LeafThreeSharedAndNodeChild ==
    /\ Len(trees) = 1
    /\ Len(trees[1].nodes) = 2
    /\ Len(trees[1].leaves) = 3
    /\ trees[1].nodes[1].left_idx = 0 - 3
    /\ trees[1].nodes[2].right_idx = 0 - 3
    /\ trees[1].nodes[1].left = trees[1].leaves[3].id
    /\ trees[1].nodes[2].right = trees[1].nodes[1].left
    /\ trees[1].nodes[1].right_idx = 1
    /\ trees[1].nodes[1].right = trees[1].nodes[2].id

Slice(arr, from, to) == [i \in 1..(to - from) |-> arr[from + i]]

\* how many nodes before node j carry the categorical flag
FlaggedBefore(dt, j) == Cardinality({i \in 1..(j - 1) : is_categorical(dt[i])})

SliceOf(rec, i) ==
    Slice(rec[k_cat_threshold].v, rec[k_cat_boundaries].v[i + 1],
          rec[k_cat_boundaries].v[i + 2])

\* the payload of the node is the slice, one or more values
PayloadIs(node, slice) ==
    /\ ~IsNone(node.cat_threshold)
    /\ Len(slice) >= 1
    /\ <<node.cat_threshold.v>> = slice

FinalizedWithSlice(tree, rec) ==
    \A j \in 1..Len(tree.nodes) :
        IF is_categorical(tree.nodes[j].decision_type_id)
        THEN /\ ~IsNone(rec[k_cat_threshold])
             /\ ~IsNone(rec[k_cat_boundaries])
             /\ FlaggedBefore(rec[k_decision_type].v, j) + 2
                    <= Len(rec[k_cat_boundaries].v)
             /\ PayloadIs(tree.nodes[j],
                          SliceOf(rec, FlaggedBefore(rec[k_decision_type].v, j)))
        ELSE /\ IsNone(tree.nodes[j].cat_threshold)
             /\ tree.nodes[j].threshold = rec[k_threshold].v[j]

\* C8: in a tree with num_cat >= 1 the i-th node with the categorical flag
\* is finalized with cat_threshold[cat_boundaries[i] .. cat_boundaries[i+1]),
\* which is not empty; the other nodes keep their float threshold.
CategoricalNodesGetTheirSlice ==
    \A k \in 1..Len(trees) :
        res.trees[k][k_num_cat].v >= 1 => FinalizedWithSlice(trees[k], res.trees[k])

\* a node finalized with one element where its slice holds two
PayloadIsOneElementOfTheSlice ==
    /\ Len(trees) = 1
    /\ Len(trees[1].nodes) = 1
    /\ trees[1].nodes[1].decision_type_id = 1
    /\ ~IsNone(trees[1].nodes[1].cat_threshold)
    /\ Len(SliceOf(res.trees[1], 0)) = 2
    /\ trees[1].nodes[1].cat_threshold.v = SliceOf(res.trees[1], 0)[1]

---------------------------------------------------------------------------
(* Properties of parse_pandas_categorical, under SpecCat and SpecCatFair.  *)

Ended == pc \in {"returned", "raised"}

IsMarkerLine(line) == startswith(strip(line), pandas_key)
MarkerJson(stripped) ==
    json_loads(SubSeq(stripped, Len(pandas_key) + 1, Len(stripped)))

\* the call returned what the marker line holds
ReturnedJsonOf(line) ==
    /\ exc = "none"
    /\ pc = "returned"
    /\ MarkerJson(strip(line)).ok
    /\ ret = MarkerJson(strip(line)).v

MarkerLineDecoded(ls) ==
    IF Len(ls) >= 1 /\ IsMarkerLine(ls[Len(ls)])
    THEN ReturnedJsonOf(ls[Len(ls)])
    ELSE IF Len(ls) >= 2 /\ IsMarkerLine(ls[Len(ls) - 1])
    THEN ReturnedJsonOf(ls[Len(ls) - 1])
    ELSE TRUE

\* C3: when the last line of the file, or else its second-to-last line,
\* starts with 'pandas_categorical:', the call returns the JSON decoded
\* from that line, whatever the file size and the lengths of the lines.
MarkerLineFoundAtAnySize ==
    (input.entry = "parse_pandas_categorical" /\ Ended) =>
        MarkerLineDecoded(readlines(file, 0))

\* two lines recovered from a window that starts inside the marker line
MarkerLineCutByWindow ==
    /\ input.entry = "parse_pandas_categorical"
    /\ pc = "raised"
    /\ exc = "ValueError"
    /\ offset > max_offset
    /\ Len(blines) = 2
    /\ IsMarkerLine(readlines(file, 0)[Len(readlines(file, 0)) - 1])
    /\ ~IsMarkerLine(blines[1])

\* C4: for every file the scan loop terminates: the call ends by
\* returning the decoded array or by raising.
ScanTerminates == <>Ended

\* the whole file has been read and holds fewer than two lines
WholeFileReadWithoutTwoLines ==
    /\ input.entry = "parse_pandas_categorical"
    /\ pc = "scanned"
    /\ Len(file) >= 1
    /\ offset = max_offset
    /\ blines = readlines(file, 0)
    /\ Len(blines) < 2

---------------------------------------------------------------------------
(* Property of _struct_from_block, under SpecStruct.                       *)

SameAsWithoutLine(without) ==
    without.ok => (exc = "none" /\ pc = "returned" /\ ret = without.v)

\* C9: a line whose key is not in the schema is ignored, whatever its
\* value text: the block decodes to the record of the block without the
\* line, and no exception is raised.
UnknownKeyLineIgnored ==
    (input.entry = "_struct_from_block" /\ Ended) =>
        SameAsWithoutLine(_struct_from_block(input.base, Schema(input.schema)))

\* the line whose value holds '=' makes the call raise
UnknownKeyLineRaises ==
    /\ input.entry = "_struct_from_block"
    /\ pc = "raised"
    /\ exc = "ValueError"
    /\ Len(split(input.extra, "=")) = 3
    /\ _struct_from_block(input.base, Schema(input.schema)).ok

---------------------------------------------------------------------------
(* Properties of Model.predict, under SpecPredict.                         *)

Rows == 0..(input.n_predictions - 1)
RowsOf(call) == call.start..(call.end - 1)
WrittenBy(call) == call.start..(call.at - 1)
Calls == {tasks[t] : t \in 1..Len(tasks)}

Disjoint(ts) ==
    \A t \in 1..Len(ts) : \A u \in 1..Len(ts) :
        t /= u => RowsOf(ts[t]) \cap RowsOf(ts[u]) = {}

WritersOf(r) == {t \in 1..Len(tasks) : r \in WrittenBy(tasks[t])}

\* C10: the calls of the entry function take disjoint ranges inside
\* [0, n), at most n_jobs of them; a row is written by at most one call
\* and only by the call whose range holds it; predict returns only when
\* every call has finished, the ranges then cover [0, n) and every row has
\* been written exactly once.
BatchesPartitionRows ==
    input.entry = "predict" =>
        /\ Len(tasks) <= n_jobs
        /\ \A c \in Calls : 0 <= c.start /\ c.start <= c.end /\ RowsOf(c) \subseteq Rows
        /\ Disjoint(tasks)
        /\ \A r \in DOMAIN predictions :
              /\ predictions[r] = Cardinality(WritersOf(r))
              /\ predictions[r] <= 1
        /\ pc = "returned" =>
              /\ AllDone
              /\ UNION {RowsOf(c) : c \in Calls} = Rows
              /\ DOMAIN ret = Rows
              /\ \A r \in Rows : ret[r] = 1

\* three rows on two threads: the second range is the shorter one
ReturnedAfterTwoUnequalBatches ==
    /\ input.entry = "predict"
    /\ pc = "returned"
    /\ input.n_predictions = 3
    /\ n_jobs = 2
    /\ Len(tasks) = 2
    /\ RowsOf(tasks[1]) = {0, 1}
    /\ RowsOf(tasks[2]) = {2}

====
